---- MODULE Spec2Model ----
(***************************************************************************)
(* The snapshot engine of steamback (py_modules/steamback/__init__.py):    *)
(* backup, restore, reuse, delete, cull and list of save-game snapshots,   *)
(* over an abstract file system (live save roots, the snapshot store) and  *)
(* a millisecond clock.                                                    *)
(*                                                                         *)
(* A file is a record [data, mtime]; shutil.copy2 copies both.  The store  *)
(* "saves2" holds, per snapshot filename, a sidecar <filename>.json and    *)
(* one payload directory <filename><suffix> per save root.  Every engine   *)
(* operation is one action (the engine is a single sequential actor); the  *)
(* environment (games writing saves, the user editing files, the clock)    *)
(* moves between operations.                                               *)
(***************************************************************************)
EXTENDS Integers, Sequences, FiniteSets, TLC

\* ------------------------------------------------------------------ bounds
MaxTicks == 2        \* the clock runs over Epoch .. Epoch + MaxTicks
MaxEnv == 1          \* steps of the environment and the host: file writes and removals,
                     \* manifest and sidecar edits, rescans, flag changes, I/O faults
MaxSaves == 2        \* Engine.max_saves, the keep-count of regular snapshots (default 50)
MaxEntries == 3      \* entries of a manifest handed to a path helper
MaxCalls == 2        \* _read_rcf calls with one game_info
MaxBlocks == 2       \* file blocks of a remotecache.vdf
MaxItems == 2        \* items (key/value lines, nested blocks) of a file block

Epoch == 10          \* the clock's first value, in ms (time.time() * 1000)

Games == {1, 2}
Files == {"f1", "f2"}
Data == {"c"}
Roots == {"g1a", "g1b", "g2a"}
Times == Epoch .. (Epoch + MaxTicks)
MTimes == (Epoch - 1) .. (Epoch + MaxTicks)

\* ------------------------------------------------------------------ values
Absent == [data |-> "-", mtime |-> 0]
EmptyDir == [f \in Files |-> Absent]
DirExists(d) == \E f \in Files : d[f] # Absent

NoKey == [kind |-> "none", game |-> 0, ts |-> 0]
NoInfo == [key |-> NoKey, roots |-> << >>]
Keys == [kind : {"save", "undo"}, game : Games, ts : Times]
SuffixIdx == {0, 1}

Missing == [st |-> "missing", roots |-> << >>]
Corrupt == [st |-> "corrupt", roots |-> << >>]

\* The full change manifest of a game (the file keys of remotecache.vdf).
FullRcf(g) == IF g = 1 THEN <<"f1", "f2">> ELSE <<"f1">>

\* The candidate directories of a game in discovery order: for game 1 the
\* per-account "remote" directory, then a likely location; for game 2 one.
CandRoots(g) == IF g = 1 THEN <<"g1a", "g1b">> ELSE <<"g2a">>

VARIABLES
  titles,            \* the installed titles the host calls the engine for
  installdir,        \* the titles whose appmanifest gives an "installdir"
  now,               \* the clock, ms
  live,              \* live[r][f]: the file f under save root r
  manifest,          \* manifest[g]: the entries of the game's remotecache.vdf
  gameInfo,          \* gameInfo[g]: the caller's game_info["save_games_roots"], << >> when not set
  storeDir,          \* whether the directory saves2 exists
  jsons,             \* jsons[k]: the sidecar <filename>.json of snapshot key k
  dirs,              \* dirs[<<k, i>>]: the payload directory <filename><suffix i>
  last_used,         \* Engine.last_used_save_info
  dry_run,           \* Engine.dry_run
  ignore_unchanged,  \* Engine.ignore_unchanged
  envLeft,           \* environment steps left
  ev,                \* the call that has just completed: its name, arguments and result
  prevBackup,        \* the title whose do_backup was the engine's previous call and created
                     \* a snapshot, no save file, manifest or sidecar having been touched
                     \* since; else 0
  probe,             \* a helper run on its own, or do_backup run in steps: the arguments,
                     \* the position and the result
  made               \* made[g]: the do_backup calls for g that created a new snapshot since
                     \* a snapshot was last deleted by hand, reused or corrupted (capped)

vars == <<titles, installdir, probe, now, live, manifest, gameInfo, storeDir, jsons, dirs, last_used,
          dry_run, ignore_unchanged, envLeft, ev, prevBackup, made>>

EngineVars == <<titles, installdir, now, live, manifest, gameInfo, storeDir, jsons, dirs,
                last_used, dry_run, ignore_unchanged, envLeft, ev, prevBackup, made>>

\* ------------------------------------------------------------------ names
DigitStr == <<"0", "1", "2", "3", "4", "5", "6", "7", "8", "9">>

RECURSIVE Digits(_)
Digits(n) == IF n < 10 THEN <<DigitStr[n + 1]>>
             ELSE Digits(n \div 10) \o <<DigitStr[(n % 10) + 1]>>

\* _create_savedir: f'{ "undo" if is_undo else "save" }_{ game_id }_{ ts }'
Filename(k) == <<k.kind, "_">> \o Digits(k.game) \o <<"_">> \o Digits(k.ts)

\* _read_rcf: "" for the first root, "_<idx>" for the others
Suffix(i) == IF i = 0 THEN << >> ELSE <<"_">> \o Digits(i)

JsonName(k) == Filename(k) \o <<".json">>
DirName(k, i) == Filename(k) \o Suffix(i)

IsPrefix(p, s) == Len(p) <= Len(s) /\ SubSeq(s, 1, Len(p)) = p

\* glob.glob(os.path.join(root, filename) + "*"): every store entry whose
\* name starts with the filename.
GlobJsons == [k0 \in Keys |-> {k \in Keys : IsPrefix(Filename(k0), JsonName(k))}]
GlobDirs == [k0 \in Keys |->
               {kd \in Keys \X SuffixIdx : IsPrefix(Filename(k0), DirName(kd[1], kd[2]))}]


\* ------------------------------------------------------------------ manifest and save roots
\* _rcf_is_valid: some manifest entry, joined to the root, is an existing file.
RcfIsValid(root, rcf, lv) == \E i \in 1 .. Len(rcf) : lv[root][rcf[i]] # Absent

\* The per-account "remote" directory of a game: it exists whatever it holds.
IsRemoteDir(r) == r = "g1a"

\* _find_save_games: the remote directories that exist; then, unless the
\* appmanifest gives no installdir (the early return), the likely locations
\* that validate; duplicates removed, in discovery order.
FindSaveGames(g, rcf, lv) ==
  LET Found(r) == IsRemoteDir(r) \/ (g \in installdir /\ RcfIsValid(r, rcf, lv))
  IN SelectSeq(CandRoots(g), Found)

\* A _read_rcf that keeps every directory _find_save_games found, validated
\* or not.
ReadRcfUnfiltered(cached, g, rcf, lv) ==
  IF cached # << >>
  THEN [none |-> FALSE, rcf |-> rcf, roots |-> cached]
  ELSE LET saveRoots == FindSaveGames(g, rcf, lv)
       IN IF saveRoots = << >>
          THEN [none |-> TRUE, rcf |-> << >>, roots |-> << >>]
          ELSE [none |-> FALSE, rcf |-> rcf, roots |-> saveRoots]

\* _read_rcf: the manifest entries, and game_info["save_games_roots"] as the
\* call leaves it.  none: the call returns None.
ReadRcf(cached, g, rcf, lv) ==
  IF cached # << >>
  THEN [none |-> FALSE, rcf |-> rcf, roots |-> cached]
  ELSE LET Valid(r) == RcfIsValid(r, rcf, lv)
           saveRoots == SelectSeq(FindSaveGames(g, rcf, lv), Valid)
       IN IF saveRoots = << >>
          THEN [none |-> TRUE, rcf |-> << >>, roots |-> << >>]
          ELSE [none |-> FALSE, rcf |-> rcf, roots |-> saveRoots]

\* ------------------------------------------------------------------ paths
\* A path is the sequence of its characters.
NoProbe == [fn |-> "none"]
Pending == [st |-> "pending", path |-> << >>]
NonePath == [st |-> "none", path |-> << >>]
Path(p) == [st |-> "path", path |-> p]

\* Python slices: s[:n], s[-n:] and s[:-n]
Take(s, n) == SubSeq(s, 1, IF n < Len(s) THEN n ELSE Len(s))
TakeTail(s, n) == IF n = 0 \/ n >= Len(s) THEN s ELSE SubSeq(s, Len(s) - n + 1, Len(s))
DropTail(s, n) == IF n = 0 \/ n >= Len(s) THEN << >> ELSE SubSeq(s, 1, Len(s) - n)

\* str.rfind('/'), as a 1-based position; 0 when there is none
RFindSlash(s) == LET at == {i \in 1 .. Len(s) : s[i] = "/"}
                 IN IF at = {} THEN 0 ELSE CHOOSE i \in at : \A j \in at : j <= i

\* os.path.normpath on a relative path without "." and ".." components:
\* repeated separators collapse, a trailing separator goes, "" becomes ".".
RECURSIVE Collapse(_)
Collapse(s) == IF Len(s) < 2 THEN s
               ELSE IF s[1] = "/" /\ s[2] = "/" THEN Collapse(SubSeq(s, 2, Len(s)))
               ELSE <<s[1]>> \o Collapse(SubSeq(s, 2, Len(s)))
NormPath(s) == LET c == Collapse(s)
               IN IF c = << >> THEN <<".">>
                  ELSE IF Len(c) > 1 /\ c[Len(c)] = "/" THEN SubSeq(c, 1, Len(c) - 1)
                  ELSE c

\* next((i for i in range(min(len(a), len(b))) if a[i] != b[i]), None),
\* 0-based; Raises (-1) stands for None.
FirstDiff(a, b) ==
  LET m == IF Len(a) < Len(b) THEN Len(a) ELSE Len(b)
      at == {i \in 1 .. m : a[i] # b[i]}
  IN IF at = {} THEN 0 - 1 ELSE (CHOOSE i \in at : \A j \in at : i <= j) - 1

\* the loop of _find_save_root_from_autoclouds over rcf[from ..]: each entry
\* is compared with the entry before it (the first with itself)
RECURSIVE FirstDifference(_, _, _)
FirstDifference(rcf, i, fd) ==
  IF i > Len(rcf) THEN fd
  ELSE LET prevR == IF i = 1 THEN rcf[1] ELSE rcf[i - 1]
           index == FirstDiff(prevR, rcf[i])
       IN FirstDifference(rcf, i + 1, IF index # 0 - 1 /\ fd > index THEN index ELSE fd)

\* _find_save_root_from_autoclouds(game_info, rcf, autocloud)
FindSaveRootFromAutoclouds(rcf, autocloud) ==
  IF Len(rcf) < 1 THEN NonePath
  ELSE LET prevR == rcf[Len(rcf)]
           rPrefix == Take(prevR, FirstDifference(rcf, 1, Len(rcf[1])))
           dirSplit == RFindSlash(rPrefix)
           trimmed == Take(rPrefix, dirSplit - 1)
       IN IF dirSplit # 0 /\ TakeTail(autocloud, Len(trimmed)) = trimmed
          THEN Path(NormPath(DropTail(autocloud, Len(trimmed))))
          ELSE Path(NormPath(autocloud))

\* ------------------------------------------------------------------ the manifest reader
\* A remotecache.vdf is the sequence of its lines (s.split("\n")), a line the
\* sequence of its characters; NoFile when the account has none.
NoFile == [exists |-> FALSE, lines |-> << >>]
File(lines) == [exists |-> TRUE, lines |-> lines]

IsSpace(c) == c \in {" ", "\t"}

\* str.strip()
RECURSIVE LStrip(_)
LStrip(l) == IF l # << >> /\ IsSpace(l[1]) THEN LStrip(SubSeq(l, 2, Len(l))) ELSE l
RECURSIVE RStrip(_)
RStrip(l) == IF l # << >> /\ IsSpace(l[Len(l)]) THEN RStrip(SubSeq(l, 1, Len(l) - 1)) ELSE l
Strip(l) == RStrip(LStrip(l))

\* (prevl[1:])[:-1]
Unquote(l) == SubSeq(l, 2, Len(l) - 1)

\* One turn of the loop over the lines: st is [rcf, prevl, skipping], prevl
\* << >> for None (and for an empty line: `if prevl` takes both alike).
ParseLine(st, l) ==
  LET t == Strip(l)
  IN IF st.skipping
     THEN IF t = <<"}">> THEN [st EXCEPT !.skipping = FALSE] ELSE st
     ELSE IF t = <<"{">>
     THEN IF st.prevl # << >>
          THEN [rcf |-> Append(st.rcf, Unquote(st.prevl)), prevl |-> << >>, skipping |-> TRUE]
          ELSE [st EXCEPT !.skipping = TRUE]
     ELSE [st EXCEPT !.prevl = t]

RECURSIVE ParseLines(_, _, _)
ParseLines(lines, n, st) ==
  IF n = 0 THEN st ELSE ParseLine(ParseLines(lines, n - 1, st), lines[n])

\* the body of `for path in paths`: a file that exists is parsed from its
\* third line on, with a fresh prevl and skipping, into the shared rcf
ParseFile(rcf, file) ==
  IF ~file.exists THEN rcf
  ELSE LET lines == SubSeq(file.lines, 3, Len(file.lines))
       IN ParseLines(lines, Len(lines), [rcf |-> rcf, prevl |-> << >>, skipping |-> FALSE]).rcf

\* _read_rcf's reader (lines 397-435) over the accounts' files, in order
RECURSIVE ReadManifests(_, _)
ReadManifests(files, n) ==
  IF n = 0 THEN << >> ELSE ParseFile(ReadManifests(files, n - 1), files[n])

\* ------------------------------------------------------------------ the roots mapping
\* game_info["save_games_roots"]: a dict from directory to suffix, as the
\* sequence of its items in insertion order; NotSet when the key is absent.
NotSet == [set |-> FALSE, map |-> << >>]
RootsMap(m) == [set |-> TRUE, map |-> m]

Has(seq, x) == \E i \in 1 .. Len(seq) : seq[i] = x

\* A dict.fromkeys that keeps every element.
DictFromKeysAll(seq) == seq

\* list(dict.fromkeys(seq)): the first occurrence of each element, in order
RECURSIVE DictFromKeys(_)
DictFromKeys(seq) ==
  IF seq = << >> THEN << >>
  ELSE LET front == DictFromKeys(SubSeq(seq, 1, Len(seq) - 1))
           last == seq[Len(seq)]
       IN IF Has(front, last) THEN front ELSE Append(front, last)

\* d[k] = v on a dict: a present key keeps its place and takes the new value
DictSet(d, k, v) ==
  IF \E i \in 1 .. Len(d) : d[i].dir = k
  THEN [i \in 1 .. Len(d) |-> IF d[i].dir = k THEN [dir |-> k, suffix |-> v] ELSE d[i]]
  ELSE Append(d, [dir |-> k, suffix |-> v])

\* for idx, dir in enumerate(saveRoots): rootsDict[dir] = "" if idx == 0 else f"_{ idx }"
RECURSIVE RootsDict(_, _)
RootsDict(saveRoots, n) ==
  IF n = 0 THEN << >>
  ELSE DictSet(RootsDict(saveRoots, n - 1), saveRoots[n], Suffix(n - 1))

\* _find_save_games over what the probes of the disk give: the remote
\* directories that exist, the likely locations, the autocloud roots.
FoundDirs(remotes, likely, auto, inst, valid) ==
  LET Valid(r) == r \in valid
  IN IF ~inst THEN remotes
     ELSE DictFromKeys(remotes \o SelectSeq(likely, Valid) \o auto)

\* _read_rcf's resolution (lines 438-461): game_info["save_games_roots"] after the call
ReadRcfRoots(roots, remotes, likely, auto, inst, valid) ==
  IF roots.set THEN roots
  ELSE LET Valid(r) == r \in valid
           saveRoots == SelectSeq(FoundDirs(remotes, likely, auto, inst, valid), Valid)
       IN IF saveRoots = << >> THEN NotSet ELSE RootsMap(RootsDict(saveRoots, Len(saveRoots)))

\* ------------------------------------------------------------------ copying
Existing(rcf, src) == LET Ex(k) == src[k] # Absent IN SelectSeq(rcf, Ex)

\* A copy that never replaces a file the destination already has.
CopyByRcfKeep(rcf, src, dest, n) ==
  LET ex == Existing(rcf, src)
      done == {ex[i] : i \in 1 .. n}
  IN IF dry_run THEN dest
     ELSE [f \in Files |-> IF f \in done /\ dest[f] = Absent THEN src[f] ELSE dest[f]]

\* _copy_by_rcf, stopped after n copies (n = all of them unless copy2 raises):
\* every manifest entry that exists in src is copied over dest's file.
CopyByRcf(rcf, src, dest, n) ==
  LET ex == Existing(rcf, src)
      done == {ex[i] : i \in 1 .. n}
  IN IF dry_run THEN dest
     ELSE [f \in Files |-> IF f \in done THEN src[f] ELSE dest[f]]

\* The number of copy2 calls the directories before the i-th make.
RECURSIVE CopiesBefore(_, _, _)
CopiesBefore(rcf, srcs, i) ==
  IF i <= 1 THEN 0
  ELSE CopiesBefore(rcf, srcs, i - 1) + Len(Existing(rcf, srcs[i - 1]))

\* The number of copy2 calls of a whole copy (none under Engine.dry_run).
PlanLen(rcf, srcs) == IF dry_run THEN 0 ELSE CopiesBefore(rcf, srcs, Len(srcs) + 1)

Clamp(x, lo, hi) == IF x < lo THEN lo ELSE IF x > hi THEN hi ELSE x

\* The loop of _copy_all_to_saveinfo / _copy_all_from_saveinfo over the save
\* roots, stopped after `budget` copies: the destination directories afterwards.
CopyAll(rcf, srcs, dests, budget) ==
  [i \in 1 .. Len(srcs) |->
     CopyByRcf(rcf, srcs[i], dests[i],
               Clamp(budget - CopiesBefore(rcf, srcs, i), 0, Len(Existing(rcf, srcs[i]))))]

LiveDirs(roots, lv) == [i \in 1 .. Len(roots) |-> lv[roots[i]]]
PayloadDirs(k, roots, dr) == [i \in 1 .. Len(roots) |-> dr[<<k, i - 1>>]]

\* A copy into the snapshot that copies nothing.
CopyAllToSaveinfoNone(info, rcf, lv, dr, budget) == dr

\* _copy_all_to_saveinfo's loop: the payload directories after the copy.
CopyAllToSaveinfo(info, rcf, lv, dr, budget) ==
  LET after == CopyAll(rcf, LiveDirs(info.roots, lv), PayloadDirs(info.key, info.roots, dr), budget)
  IN [kd \in Keys \X SuffixIdx |->
        IF kd[1] = info.key /\ kd[2] + 1 <= Len(info.roots) THEN after[kd[2] + 1] ELSE dr[kd]]

\* _copy_all_from_saveinfo: the live save roots after the copy.
RootIndex(roots, r) == CHOOSE i \in 1 .. Len(roots) : roots[i] = r
CopyAllFromSaveinfo(info, rcf, lv, dr, budget) ==
  LET after == CopyAll(rcf, PayloadDirs(info.key, info.roots, dr), LiveDirs(info.roots, lv), budget)
  IN [r \in Roots |->
        IF \E i \in 1 .. Len(info.roots) : info.roots[i] = r
        THEN after[RootIndex(info.roots, r)] ELSE lv[r]]

\* ------------------------------------------------------------------ the store
\* _create_savedir: the sidecar is written (unless Engine.dry_run).
CreateSavedir(js, info) ==
  IF dry_run THEN js ELSE [js EXCEPT ![info.key] = [st |-> "ok", roots |-> info.roots]]

\* _delete_savedir: every sidecar and payload directory the glob matches
\* (DeleteSavedirJsonsNone: no sidecar is removed; DeleteSavedirDirsFirst: only
\* the directory named exactly like the snapshot is).
DeleteSavedirJsonsNone(js, k0) == js
DeleteSavedirJsons(js, k0) == [k \in Keys |-> IF k \in GlobJsons[k0] THEN Missing ELSE js[k]]
DeleteSavedirDirsFirst(dr, k0) ==
  [kd \in Keys \X SuffixIdx |-> IF kd = <<k0, 0>> THEN EmptyDir ELSE dr[kd]]
DeleteSavedirDirs(dr, k0) ==
  [kd \in Keys \X SuffixIdx |-> IF kd \in GlobDirs[k0] THEN EmptyDir ELSE dr[kd]]

\* _file_to_saveinfo on a corrupt sidecar calls os.remove(j) with the open
\* file object j instead of its path: that raises TypeError, which the
\* `except OSError` around it does not catch, so nothing is removed.
RemoveGetsPath == FALSE
FileToSaveinfo(js, k) ==
  IF js[k].st = "corrupt" /\ RemoveGetsPath THEN [js EXCEPT ![k] = Missing] ELSE js

\* The sidecars after get_saveinfos has tried to load each of them.
ScanJsons(js) == [k \in Keys |-> FileToSaveinfo(js, k)[k]]

\* The SaveInfo dicts of the sidecars that load.
Parsed(js) == {[key |-> k, roots |-> js[k].roots] : k \in {x \in Keys : js[x].st = "ok"}}

IsUndo(i) == i.key.kind = "undo"
NotUndo(i) == i.key.kind # "undo"

\* infos.sort(key=timestamp, reverse=True): the sort is stable and os.listdir
\* gives the files in no defined order, so equal timestamps come in any order.
RECURSIVE SortedSeqs(_)
SortedSeqs(S) ==
  IF S = {} THEN {<< >>}
  ELSE UNION {{<<x>> \o rest : rest \in SortedSeqs(S \ {x})} :
                x \in {y \in S : \A z \in S : z.key.ts <= y.key.ts}}

\* A listing left in timestamp order.
UndosAsSorted(infos) == infos

\* get_saveinfos: sorted newest first, then the undos before the saves.
UndosFirst(infos) == SelectSeq(infos, IsUndo) \o SelectSeq(infos, NotUndo)
GetSaveinfos(js) == {UndosFirst(infos) : infos \in SortedSeqs(Parsed(js))}

\* _get_newest_save: the first non-undo entry of the game, or None.
GetNewestSave(js, g) ==
  LET infos == CHOOSE l \in GetSaveinfos(js) : TRUE
      Mine(x) == x.key.game = g /\ NotUndo(x)
      mine == SelectSeq(infos, Mine)
  IN IF mine = << >> THEN NoInfo ELSE mine[1]

\* A delete_oldest that pops nothing.
PoppedNone(files, to_keep) == {}

\* A delete_oldest that pops from the front of the newest-first list.
PoppedNewest(files, to_keep) == {files[i] : i \in 1 .. (Len(files) - to_keep)}

\* delete_oldest(files, to_keep): the entries popped from the end.
Popped(files, to_keep) == {files[i] : i \in (to_keep + 1) .. Len(files)}

\* A cull that leaves the undos alone.
CullVictimsSavesOnly(infos) == {i.key : i \in Popped(SelectSeq(infos, NotUndo), MaxSaves)}

\* _cull_old_saves on the listing infos: the filenames it deletes.
CullVictims(infos) ==
  {i.key : i \in Popped(SelectSeq(infos, IsUndo), 1) \cup Popped(SelectSeq(infos, NotUndo), MaxSaves)}

CullJsons(js, infos) ==
  [k \in Keys |-> IF \E k0 \in CullVictims(infos) : k \in GlobJsons[k0] THEN Missing ELSE js[k]]
CullDirs(dr, infos) ==
  [kd \in Keys \X SuffixIdx |->
     IF \E k0 \in CullVictims(infos) : kd \in GlobDirs[k0] THEN EmptyDir ELSE dr[kd]]

\* ------------------------------------------------------------------ change detection
Raises == 0 - 1
SetMax(S) == CHOOSE x \in S : \A y \in S : y <= x

\* _get_directory_timestamp: max() of an empty list raises ValueError.
GetDirectoryTimestamp(rcf, src) ==
  LET ex == Existing(rcf, src)
  IN IF ex = << >> THEN Raises ELSE SetMax({src[ex[i]].mtime : i \in 1 .. Len(ex)})

\* _get_rcf_timestamp: the max over the save roots.
GetRcfTimestamp(rcf, roots, lv) ==
  LET ts == {GetDirectoryTimestamp(rcf, lv[roots[i]]) : i \in 1 .. Len(roots)}
  IN IF Raises \in ts THEN Raises ELSE SetMax(ts)

\* do_backup's test `newest_save["timestamp"] > game_timestamp`
Unchanged(newestTs, gameTs) == newestTs > gameTs


\* ------------------------------------------------------------------ operations
\* The record of a completed call: res is what the caller gets ("none" for
\* None, "raise_*" for an exception), out the SaveInfo the call created,
\* list the result of get_saveinfos, sup the titles find_supported returns.
Ev(op, g, arg, dry, apply, res, out, list) ==
  [op |-> op, game |-> g, arg |-> arg, dry |-> dry, apply |-> apply,
   res |-> res, out |-> out, list |-> list, sup |-> {}]

Idle == Ev("idle", 0, NoInfo, FALSE, FALSE, "ok", NoInfo, << >>)

\* How many copy2 calls of a copy of len succeed: all of them, or, while an
\* environment step is left, any smaller number (the next copy2 raises).
Budgets(len) == IF envLeft > 0 THEN 0 .. len ELSE {len}

\* _create_savedir's SaveInfo: ts = int(round(time.time() * 1000))
NewInfo(kind, g, roots) == [key |-> [kind |-> kind, game |-> g, ts |-> now], roots |-> roots]

NoneMade == [g \in Games |-> 0]
Bump(g) == [made EXCEPT ![g] = IF made[g] > MaxSaves THEN made[g] ELSE made[g] + 1]

\* do_backup's test `if not dry_run` on its parameter (WritesAnyway: a test
\* that always takes the writing branch).
WritesAnyway(dry) == TRUE
Writes(dry) == ~dry

\* do_backup(game_info, apply_last_used, dry_run)
DoBackup(g, apply, dry) ==
  LET rr == ReadRcf(gameInfo[g], g, manifest[g], live)
      rcf == rr.rcf
      info == NewInfo("save", g, rr.roots)
      j0 == ScanJsons(jsons)
      newest == GetNewestSave(j0, g)
      check == newest # NoInfo /\ ignore_unchanged
      gameTs == GetRcfTimestamp(rcf, rr.roots, live)
      j1 == CreateSavedir(j0, info)
      srcs == LiveDirs(rr.roots, live)
      Done(res, out) ==
        /\ ev' = Ev("backup", g, NoInfo, dry, apply, res, out, << >>)
        /\ envLeft' = IF res = "raise_copy" THEN envLeft - 1 ELSE envLeft
        /\ prevBackup' = IF res = "created" /\ ~dry_run THEN g ELSE 0
        /\ made' = IF res = "created" /\ ~dry_run /\ jsons[info.key].st # "ok"
                   THEN Bump(g) ELSE made
  IN /\ ev = Idle
     /\ gameInfo' = [gameInfo EXCEPT ![g] = rr.roots]
     /\ UNCHANGED <<titles, installdir, probe, now, live, manifest, dry_run, ignore_unchanged>>
     /\ IF rr.none \/ rcf = << >>
        THEN /\ Done("none", NoInfo)
             /\ UNCHANGED <<storeDir, jsons, dirs, last_used>>
        ELSE /\ storeDir' = TRUE
             /\ IF check /\ gameTs = Raises
                THEN /\ Done("raise_value", NoInfo)
                     /\ jsons' = j0
                     /\ UNCHANGED <<dirs, last_used>>
                ELSE IF check /\ Unchanged(newest.key.ts, gameTs)
                THEN /\ Done("none", NoInfo)
                     /\ jsons' = j0
                     /\ UNCHANGED <<dirs, last_used>>
                ELSE IF ~Writes(dry)
                THEN /\ Done("sentinel", NoInfo)
                     /\ jsons' = j0
                     /\ UNCHANGED <<dirs, last_used>>
                ELSE \E budget \in Budgets(PlanLen(rcf, srcs)) :
                       LET d1 == CopyAllToSaveinfo(info, rcf, live, dirs, budget)
                       IN IF budget < PlanLen(rcf, srcs)
                          THEN \* copy2 raised: the except clause deletes, then re-raises
                               /\ Done("raise_copy", info)
                               /\ jsons' = DeleteSavedirJsons(j1, info.key)
                               /\ dirs' = DeleteSavedirDirs(d1, info.key)
                               /\ UNCHANGED last_used
                          ELSE \E infos \in GetSaveinfos(ScanJsons(j1)) :
                               /\ Done("created", info)
                               /\ jsons' = CullJsons(ScanJsons(j1), infos)
                               /\ dirs' = CullDirs(d1, infos)
                               /\ last_used' = IF apply THEN info ELSE last_used

\* do_restore(save_info), for a SaveInfo of the current listing
DoRestoreCall(s) ==
  LET g == s.key.game
      rcf == ReadRcf(s.roots, g, manifest[g], live).rcf
      undo == NewInfo("undo", g, s.roots)
      mkUndo == NotUndo(s)
      j1 == IF mkUndo THEN CreateSavedir(jsons, undo) ELSE jsons
      toLen == IF mkUndo THEN PlanLen(rcf, LiveDirs(s.roots, live)) ELSE 0
      Done(res, out) ==
        /\ ev' = Ev("restore", g, s, FALSE, FALSE, res, out, << >>)
        /\ envLeft' = IF res \in {"raise_undo", "raise_copy"} THEN envLeft - 1 ELSE envLeft
        /\ prevBackup' = 0
        /\ UNCHANGED made
  IN /\ ev = Idle
     /\ s \in Parsed(jsons)
     /\ UNCHANGED <<titles, installdir, now, manifest, gameInfo, dry_run, ignore_unchanged>>
     /\ IF rcf = << >>
        THEN \* assert rcf
             /\ Done("raise_assert", NoInfo)
             /\ UNCHANGED <<live, storeDir, jsons, dirs, last_used>>
        ELSE /\ storeDir' = TRUE
             /\ \E b1 \in Budgets(toLen) :
                  LET d1 == IF mkUndo THEN CopyAllToSaveinfo(undo, rcf, live, dirs, b1) ELSE dirs
                      fromLen == PlanLen(rcf, PayloadDirs(s.key, s.roots, d1))
                  IN IF b1 < toLen
                     THEN \* the undo copy raised: the except clause deletes, then re-raises
                          /\ Done("raise_undo", undo)
                          /\ jsons' = DeleteSavedirJsons(j1, undo.key)
                          /\ dirs' = DeleteSavedirDirs(d1, undo.key)
                          /\ UNCHANGED <<live, last_used>>
                     ELSE \E b2 \in Budgets(fromLen) :
                          /\ live' = CopyAllFromSaveinfo(s, rcf, live, d1, b2)
                          /\ IF b2 < fromLen
                             THEN \* the copy back raised: no cull, last-used not set
                                  /\ Done("raise_copy", IF mkUndo THEN undo ELSE NoInfo)
                                  /\ jsons' = j1
                                  /\ dirs' = d1
                                  /\ UNCHANGED last_used
                             ELSE \E infos \in GetSaveinfos(ScanJsons(j1)) :
                                  /\ Done("ok", IF mkUndo THEN undo ELSE NoInfo)
                                  /\ jsons' = CullJsons(ScanJsons(j1), infos)
                                  /\ dirs' = CullDirs(d1, infos)
                                  /\ last_used' = s

\* do_restore(save_info), for a SaveInfo of the current listing
DoRestore(s) == DoRestoreCall(s) /\ UNCHANGED probe

\* do_delete(save_info), for a SaveInfo of the current listing
DoDelete(s) ==
  /\ ev = Idle
  /\ s \in Parsed(jsons)
  /\ jsons' = DeleteSavedirJsons(jsons, s.key)
  /\ dirs' = DeleteSavedirDirs(dirs, s.key)
  /\ storeDir' = TRUE
  /\ ev' = Ev("delete", s.key.game, s, FALSE, FALSE, "ok", NoInfo, << >>)
  /\ prevBackup' = 0
  /\ made' = NoneMade
  /\ UNCHANGED <<titles, installdir, probe, now, live, manifest, gameInfo, last_used, dry_run, ignore_unchanged,
                 envLeft>>

\* do_reuse()
DoReuse ==
  LET s == last_used
      g == s.key.game
      rcf == ReadRcf(s.roots, g, manifest[g], live).rcf
      fromLen == PlanLen(rcf, PayloadDirs(s.key, s.roots, dirs))
      reuse == NewInfo("save", g, s.roots)
      j1 == CreateSavedir(jsons, reuse)
      Done(res, out) ==
        /\ ev' = Ev("reuse", g, s, FALSE, FALSE, res, out, << >>)
        /\ envLeft' = IF res \in {"raise_new", "raise_copy"} THEN envLeft - 1 ELSE envLeft
        /\ prevBackup' = 0
        /\ made' = IF res = "ok" THEN NoneMade ELSE made
  IN /\ ev = Idle
     /\ UNCHANGED <<titles, installdir, probe, now, manifest, gameInfo, dry_run, ignore_unchanged>>
     /\ IF s = NoInfo
        THEN \* if save_info == None: return
             /\ ev' = Ev("reuse", 0, s, FALSE, FALSE, "none", NoInfo, << >>)
             /\ prevBackup' = 0
             /\ UNCHANGED <<live, storeDir, jsons, dirs, last_used, envLeft, made>>
        ELSE IF rcf = << >>
        THEN \* assert rcf
             /\ Done("raise_assert", NoInfo)
             /\ UNCHANGED <<live, storeDir, jsons, dirs, last_used>>
        ELSE /\ storeDir' = TRUE
             /\ \E b1 \in Budgets(fromLen) :
                  LET lv1 == CopyAllFromSaveinfo(s, rcf, live, dirs, b1)
                      toLen == PlanLen(rcf, LiveDirs(s.roots, lv1))
                  IN /\ live' = lv1
                     /\ IF b1 < fromLen
                        THEN /\ Done("raise_copy", NoInfo)
                             /\ UNCHANGED <<jsons, dirs, last_used>>
                        ELSE \E b2 \in Budgets(toLen) :
                               LET d1 == CopyAllToSaveinfo(reuse, rcf, lv1, dirs, b2)
                               IN IF b2 < toLen
                                  THEN /\ Done("raise_new", reuse)
                                       /\ jsons' = DeleteSavedirJsons(j1, reuse.key)
                                       /\ dirs' = DeleteSavedirDirs(d1, reuse.key)
                                       /\ UNCHANGED last_used
                                  ELSE \* self.last_used_save_info = reuse_info; do_delete(save_info)
                                       /\ Done("ok", reuse)
                                       /\ jsons' = DeleteSavedirJsons(j1, s.key)
                                       /\ dirs' = DeleteSavedirDirs(d1, s.key)
                                       /\ last_used' = reuse

\* get_saveinfos()
ListSaveinfos ==
  /\ ev = Idle
  /\ storeDir' = TRUE
  /\ jsons' = ScanJsons(jsons)
  /\ \E infos \in GetSaveinfos(ScanJsons(jsons)) :
       ev' = Ev("list", 0, NoInfo, FALSE, FALSE, "ok", NoInfo, infos)
  /\ prevBackup' = 0
  /\ UNCHANGED <<titles, installdir, probe, now, live, manifest, gameInfo, dirs, last_used, dry_run,
                 ignore_unchanged, envLeft, made>>

\* find_supported(game_infos), for the game_info dicts of the installed titles:
\* _read_rcf for each, which resolves and stores the save roots it finds.
FindSupported ==
  LET rr == [g \in Games |-> ReadRcf(gameInfo[g], g, manifest[g], live)]
  IN /\ ev = Idle
     /\ gameInfo' = [g \in Games |-> IF g \in titles THEN rr[g].roots ELSE gameInfo[g]]
     /\ ev' = [Ev("supported", 0, NoInfo, FALSE, FALSE, "ok", NoInfo, << >>)
                EXCEPT !.sup = {g \in titles : ~rr[g].none /\ rr[g].rcf # << >>}]
     /\ prevBackup' = 0
     /\ UNCHANGED <<titles, installdir, probe, now, live, manifest, storeDir, jsons, dirs, last_used,
                    dry_run, ignore_unchanged, envLeft, made>>

\* the call returns to its caller
Return ==
  /\ ev # Idle
  /\ ev' = Idle
  /\ UNCHANGED <<titles, installdir, probe, now, live, manifest, gameInfo, storeDir, jsons, dirs, last_used,
                 dry_run, ignore_unchanged, envLeft, prevBackup, made>>

\* ------------------------------------------------------------------ host and environment
\* find_all_game_info(): the game_info dicts are built anew, without save_games_roots
FindAllGameInfo ==
  /\ ev = Idle
  /\ envLeft > 0
  /\ \E g \in Games : gameInfo[g] # << >>
  /\ gameInfo' = [g \in Games |-> << >>]
  /\ envLeft' = envLeft - 1
  /\ UNCHANGED <<titles, installdir, probe, now, live, manifest, storeDir, jsons, dirs, last_used, dry_run,
                 ignore_unchanged, ev, prevBackup, made>>

\* The host sets Engine.dry_run and Engine.ignore_unchanged.
SetConfig(dr, ig) ==
  /\ ev = Idle
  /\ envLeft > 0
  /\ <<dr, ig>> # <<dry_run, ignore_unchanged>>
  /\ dry_run' = dr
  /\ ignore_unchanged' = ig
  /\ envLeft' = envLeft - 1
  /\ UNCHANGED <<titles, installdir, probe, now, live, manifest, gameInfo, storeDir, jsons, dirs, last_used, ev,
                 prevBackup, made>>

\* time passes
Tick ==
  /\ ev = Idle
  /\ now < Epoch + MaxTicks
  /\ now' = now + 1
  /\ UNCHANGED <<titles, installdir, probe, live, manifest, gameInfo, storeDir, jsons, dirs, last_used, dry_run,
                 ignore_unchanged, envLeft, ev, prevBackup, made>>

RootGame(r) == IF r = "g2a" THEN 2 ELSE 1
RootFiles(r) == IF r = "g1a" THEN Files ELSE {"f1"}

\* a game writes a save file
EnvWrite(r, f, d) ==
  /\ ev = Idle
  /\ envLeft > 0
  /\ RootGame(r) \in titles
  /\ f \in RootFiles(r)
  /\ live[r][f] # [data |-> d, mtime |-> now]
  /\ live' = [live EXCEPT ![r][f] = [data |-> d, mtime |-> now]]
  /\ envLeft' = envLeft - 1
  /\ prevBackup' = 0
  /\ UNCHANGED <<titles, installdir, probe, now, manifest, gameInfo, storeDir, jsons, dirs, last_used, dry_run,
                 ignore_unchanged, ev, made>>

\* a save file is removed
EnvRemove(r, f) ==
  /\ ev = Idle
  /\ envLeft > 0
  /\ RootGame(r) \in titles
  /\ live[r][f] # Absent
  /\ live' = [live EXCEPT ![r][f] = Absent]
  /\ envLeft' = envLeft - 1
  /\ prevBackup' = 0
  /\ UNCHANGED <<titles, installdir, probe, now, manifest, gameInfo, storeDir, jsons, dirs, last_used, dry_run,
                 ignore_unchanged, ev, made>>

\* the game's remotecache.vdf loses or regains its entries
EnvManifest(g) ==
  /\ ev = Idle
  /\ envLeft > 0
  /\ manifest' = [manifest EXCEPT ![g] = IF manifest[g] = << >> THEN FullRcf(g) ELSE << >>]
  /\ envLeft' = envLeft - 1
  /\ prevBackup' = 0
  /\ UNCHANGED <<titles, installdir, probe, now, live, gameInfo, storeDir, jsons, dirs, last_used, dry_run,
                 ignore_unchanged, ev, made>>

\* a sidecar is corrupted by hand (invalid JSON syntax)
EnvCorrupt(k) ==
  /\ ev = Idle
  /\ envLeft > 0
  /\ jsons[k].st = "ok"
  /\ jsons' = [jsons EXCEPT ![k] = Corrupt]
  /\ envLeft' = envLeft - 1
  /\ made' = NoneMade
  /\ prevBackup' = 0
  /\ UNCHANGED <<titles, installdir, probe, now, live, manifest, gameInfo, storeDir, dirs, last_used, dry_run,
                 ignore_unchanged, ev>>

\* ------------------------------------------------------------------ specifications
\* The state after construction (dry_run off, last-used None, no store
\* directory yet) over save roots that hold the games' first saves.
InitFor(ts, inst, env, igs) ==
  /\ titles = ts
  /\ installdir = inst
  /\ now = Epoch
  /\ live = [r \in Roots |->
               [f \in Files |->
                  IF f = "f1"
                  THEN [data |-> IF r = "g1b" THEN "b" ELSE "a", mtime |-> Epoch - 1]
                  ELSE Absent]]
  /\ manifest = [g \in Games |-> FullRcf(g)]
  /\ gameInfo = [g \in Games |-> << >>]
  /\ storeDir = FALSE
  /\ jsons = [k \in Keys |-> Missing]
  /\ dirs = [kd \in Keys \X SuffixIdx |-> EmptyDir]
  /\ last_used = NoInfo
  /\ dry_run = FALSE
  /\ ignore_unchanged \in igs
  /\ envLeft = env
  /\ ev = Idle
  /\ prevBackup = 0
  /\ made = NoneMade

\* Titles whose appmanifests all give an installdir; no helper call.
InitWith(ts, env, igs) == InitFor(ts, Games, env, igs) /\ probe = NoProbe

EngineStep ==
  \/ \E g \in titles, apply \in BOOLEAN, dry \in BOOLEAN : DoBackup(g, apply, dry)
  \/ \E s \in Parsed(jsons) : DoRestore(s)
  \/ \E s \in Parsed(jsons) : DoDelete(s)
  \/ DoReuse
  \/ ListSaveinfos
  \/ FindSupported
  \/ Return
  \/ Tick

EnvStep ==
  \/ FindAllGameInfo
  \/ \E dr \in BOOLEAN, ig \in BOOLEAN : SetConfig(dr, ig)
  \/ \E r \in Roots, f \in Files, d \in Data : EnvWrite(r, f, d)
  \/ \E r \in Roots, f \in Files : EnvRemove(r, f)
  \/ \E g \in titles : EnvManifest(g)
  \/ \E k \in Keys : EnvCorrupt(k)

\* One title, the engine as constructed (ignore_unchanged on), and a host and
\* an environment that move MaxEnv times.
Init == InitWith({1}, MaxEnv, {TRUE})
Next == EngineStep \/ EnvStep
Spec == Init /\ [][Next]_vars

\* Two titles in a quiet environment; the host has set ignore_unchanged either way.
InitTitles == InitWith(Games, 0, BOOLEAN)
NextTitles == EngineStep
SpecTitles == InitTitles /\ [][NextTitles]_vars

\* The title with one save root holding one listed file, and its environment.
InitOne == InitWith({2}, MaxEnv, {TRUE})
SpecOne == InitOne /\ [][Next]_vars

\* The title with a "remote" directory, its appmanifest giving no installdir.
InitBare == InitFor({1}, {}, MaxEnv, {TRUE}) /\ probe = NoProbe
SpecBare == InitBare /\ [][Next]_vars

\* The common-prefix step on its own: a manifest of one to MaxEntries
\* entries and the directory of a steam_autocloud.vdf marker.
EntryPaths == {<<"s", "/", "a">>, <<"s", "/", "a", "2", "/", "x">>,
               <<"s", "/", "a", "2", "/", "y">>, <<"s", "/", "b">>, <<"t">>}
MarkerDirs == {<<"r">>, <<"r", "/", "s">>, <<"r", "/", "s", "/", "a", "2">>}
Manifests == UNION {[1 .. n -> EntryPaths] : n \in 1 .. MaxEntries}

InitPrefix ==
  /\ InitFor({1}, Games, 0, {TRUE})
  /\ probe \in [fn : {"autocloud"}, rcf : Manifests, autocloud : MarkerDirs, out : {Pending}]

\* _find_save_games calls the helper for a marker directory it has found
ApplyPrefix ==
  /\ probe.fn = "autocloud"
  /\ probe.out = Pending
  /\ probe' = [probe EXCEPT !.out = FindSaveRootFromAutoclouds(probe.rcf, probe.autocloud)]
  /\ UNCHANGED EngineVars

NextPrefix == ApplyPrefix
SpecPrefix == InitPrefix /\ [][NextPrefix]_vars

\* The resolution of the save roots on its own: the directories the probes
\* of the disk find, the directories that hold a listed file, and up to
\* MaxCalls calls of _read_rcf with the same game_info, the disk changing
\* between them.
Dirs == {"p", "q", "r"}
SeqsUpTo(S, n) == UNION {[1 .. k -> S] : k \in 0 .. n}
InitRoots ==
  /\ InitFor({1}, Games, 0, {TRUE})
  /\ probe \in [fn : {"roots"},
                 remotes : {<< >>, <<"p">>, <<"p", "q">>},
                 likely : SeqsUpTo({"q", "r"}, 1),
                 auto : SeqsUpTo(Dirs, 2),
                 inst : BOOLEAN,
                 valid : SUBSET Dirs,
                 at : {{}},
                 calls : {0},
                 roots : {NotSet}]

\* _read_rcf(game_info), after the disk has become v
ReadRoots(v) ==
  LET roots == ReadRcfRoots(probe.roots, probe.remotes, probe.likely, probe.auto, probe.inst, v)
  IN /\ probe.fn = "roots"
     /\ probe.calls < MaxCalls
     /\ probe.calls = 0 => v = probe.valid
     /\ probe' = [probe EXCEPT !.valid = v, !.calls = probe.calls + 1, !.roots = roots,
                               !.at = IF ~probe.roots.set /\ roots.set THEN v ELSE probe.at]
     /\ UNCHANGED EngineVars

NextRoots == \E v \in SUBSET Dirs : ReadRoots(v)
SpecRoots == InitRoots /\ [][NextRoots]_vars

\* The manifest reader on its own, over well-formed manifests: the id line
\* and its brace, two header lines, up to MaxBlocks file blocks of up to
\* MaxItems items (a key/value line, or a nested block), the closing brace.
Quoted(name) == <<"\"">> \o name \o <<"\"">>
KvLine(k, v) == <<"\t">> \o Quoted(k) \o <<"\t", "\t">> \o Quoted(v)
RenderItem(kind) ==
  IF kind = "kv" THEN <<KvLine(<<"s", "i", "z", "e">>, <<"1">>)>>
  ELSE << <<"\t", "\t">> \o Quoted(<<"m", "e", "t", "a">>), <<"\t", "\t", "{">>,
          <<"\t">> \o KvLine(<<"k">>, <<"v">>), <<"\t", "\t", "}">> >>
RECURSIVE RenderItems(_, _)
RenderItems(body, n) ==
  IF n = 0 THEN << >> ELSE RenderItems(body, n - 1) \o RenderItem(body[n])
RenderBlock(b) ==
  << <<"\t">> \o Quoted(b.path), <<"\t", "{">> >> \o RenderItems(b.body, Len(b.body))
    \o << <<"\t", "}">> >>
RECURSIVE RenderBlocks(_, _)
RenderBlocks(blocks, n) ==
  IF n = 0 THEN << >> ELSE RenderBlocks(blocks, n - 1) \o RenderBlock(blocks[n])
Render(blocks) ==
  File(<< Quoted(<<"4", "4", "0">>), <<"{">>,
          KvLine(<<"C", "h", "a", "n", "g", "e">>, <<"7">>), KvLine(<<"o", "s">>, <<"0">>) >>
       \o RenderBlocks(blocks, Len(blocks)) \o << <<"}">> >>)

FilePaths == {<<"a", "/", "f", "1">>, <<"f", "2">>}
Blocks == [path : FilePaths, body : UNION {[1 .. k -> {"kv", "nested"}] : k \in 0 .. MaxItems}]
BlockLists == UNION {[1 .. k -> Blocks] : k \in 0 .. MaxBlocks}
\* what a second account adds: nothing, a missing file, a file of one block
Seconds == {<< >>, <<NoFile>>, <<Render(<< [path |-> <<"f", "3">>, body |-> <<"kv">>] >>)>>}

InitRcf ==
  /\ InitFor({1}, Games, 0, {TRUE})
  /\ probe \in [fn : {"rcf"}, blocks : BlockLists, more : Seconds, out : {Pending}]

\* the reader is run over the accounts' files
ApplyRcf ==
  LET files == <<Render(probe.blocks)>> \o probe.more
  IN /\ probe.fn = "rcf"
     /\ probe.out = Pending
     /\ probe' = [probe EXCEPT !.out = Path(ReadManifests(files, Len(files)))]
     /\ UNCHANGED EngineVars

NextRcf == ApplyRcf
SpecRcf == InitRcf /\ [][NextRcf]_vars

\* _delete_savedir on its own, over a store given by the names of its
\* entries; the snapshots' timestamps have one digit or two.
\* glob.glob(os.path.join(root, filename) + "*"), then os.remove or
\* shutil.rmtree of every match: the entries that are left.
DeleteSavedir(store, filename) == {n \in store : ~IsPrefix(filename, n)}

WideTimes == {1, Epoch}
WideKeys == [kind : {"save", "undo"}, game : Games, ts : WideTimes]
\* the store entries of a snapshot: its sidecar and its payload directories
Entries(k) == {JsonName(k)} \cup {DirName(k, i) : i \in SuffixIdx}
StoreOf(ks) == UNION {Entries(k) : k \in ks}

InitDelete ==
  /\ InitFor({1}, Games, 0, {TRUE})
  /\ probe \in [fn : {"delete"}, has : SUBSET WideKeys, key : WideKeys, out : {{<<"?">>}}]

\* _delete_savedir(filename) for a snapshot of the store
ApplyDelete ==
  /\ probe.fn = "delete"
  /\ probe.out = {<<"?">>}
  /\ probe.key \in probe.has
  /\ probe' = [probe EXCEPT !.out = DeleteSavedir(StoreOf(probe.has), Filename(probe.key))]
  /\ UNCHANGED EngineVars

NextDelete == ApplyDelete
SpecDelete == InitDelete /\ [][NextDelete]_vars

\* do_backup in steps: _create_savedir, then one copy2 at a time, then the
\* cull.  probe holds the call's position, its SaveInfo, the copies made so
\* far, and whether the store had no snapshot of that name before.
StepIdle == [fn |-> "backup", pc |-> "idle", info |-> NoInfo, apply |-> FALSE,
             copied |-> 0, fresh |-> FALSE]

\* do_backup gets as far as _create_savedir (lines 690-705)
ReachesCreate(g, dry) ==
  LET rr == ReadRcf(gameInfo[g], g, manifest[g], live)
      newest == GetNewestSave(ScanJsons(jsons), g)
      check == newest # NoInfo /\ ignore_unchanged
      gameTs == GetRcfTimestamp(rr.rcf, rr.roots, live)
  IN /\ ~rr.none /\ rr.rcf # << >>
     /\ ~(check /\ (gameTs = Raises \/ Unchanged(newest.key.ts, gameTs)))
     /\ Writes(dry)

\* a do_backup that returns or raises before it creates anything
BackupEarly(g, apply, dry) ==
  /\ probe.pc = "idle"
  /\ ~ReachesCreate(g, dry)
  /\ DoBackup(g, apply, dry)

\* save_info = self._create_savedir(game_info): the sidecar is written
BeginBackup(g, apply) ==
  LET rr == ReadRcf(gameInfo[g], g, manifest[g], live)
      info == NewInfo("save", g, rr.roots)
  IN /\ probe.pc = "idle"
     /\ ev = Idle
     /\ ReachesCreate(g, FALSE)
     /\ gameInfo' = [gameInfo EXCEPT ![g] = rr.roots]
     /\ storeDir' = TRUE
     /\ jsons' = CreateSavedir(ScanJsons(jsons), info)
     /\ probe' = [StepIdle EXCEPT !.pc = "copying", !.info = info, !.apply = apply,
                                  !.fresh = (jsons[info.key].st # "ok")]
     /\ UNCHANGED <<titles, installdir, now, live, manifest, dirs, last_used, dry_run,
                    ignore_unchanged, envLeft, ev, prevBackup, made>>

StepRcf == manifest[probe.info.key.game]
StepPlan == PlanLen(StepRcf, LiveDirs(probe.info.roots, live))

\* one shutil.copy2 of _copy_by_rcf succeeds
CopyOne ==
  /\ probe.pc = "copying"
  /\ probe.copied < StepPlan
  /\ dirs' = CopyAllToSaveinfo(probe.info, StepRcf, live, dirs, probe.copied + 1)
  /\ probe' = [probe EXCEPT !.copied = probe.copied + 1]
  /\ UNCHANGED <<titles, installdir, now, live, manifest, gameInfo, storeDir, jsons, last_used,
                 dry_run, ignore_unchanged, envLeft, ev, prevBackup, made>>

\* the next copy2 raises: the except clause deletes the snapshot and re-raises
FailCopy ==
  /\ probe.pc = "copying"
  /\ probe.copied < StepPlan
  /\ envLeft > 0
  /\ jsons' = DeleteSavedirJsons(jsons, probe.info.key)
  /\ dirs' = DeleteSavedirDirs(dirs, probe.info.key)
  /\ envLeft' = envLeft - 1
  /\ ev' = Ev("backup", probe.info.key.game, NoInfo, FALSE, probe.apply, "raise_copy",
              probe.info, << >>)
  /\ prevBackup' = 0
  /\ probe' = StepIdle
  /\ UNCHANGED <<titles, installdir, now, live, manifest, gameInfo, storeDir, last_used, dry_run,
                 ignore_unchanged, made>>

\* the copy is over: _cull_old_saves, last-used, return save_info
FinishBackup ==
  LET g == probe.info.key.game
  IN /\ probe.pc = "copying"
     /\ probe.copied = StepPlan
     /\ \E infos \in GetSaveinfos(ScanJsons(jsons)) :
          /\ jsons' = CullJsons(ScanJsons(jsons), infos)
          /\ dirs' = CullDirs(dirs, infos)
     /\ last_used' = IF probe.apply THEN probe.info ELSE last_used
     /\ ev' = Ev("backup", g, NoInfo, FALSE, probe.apply, "created", probe.info, << >>)
     /\ prevBackup' = g
     /\ made' = IF probe.fresh THEN Bump(g) ELSE made
     /\ probe' = StepIdle
     /\ UNCHANGED <<titles, installdir, now, live, manifest, gameInfo, storeDir, dry_run,
                    ignore_unchanged, envLeft>>

InitSteps == InitFor({1}, Games, MaxEnv, BOOLEAN) /\ probe = StepIdle
NextSteps ==
  \/ \E g \in titles, apply \in BOOLEAN, dry \in BOOLEAN : BackupEarly(g, apply, dry)
  \/ \E g \in titles, apply \in BOOLEAN : BeginBackup(g, apply)
  \/ CopyOne
  \/ FailCopy
  \/ FinishBackup
  \/ Return
  \/ Tick
SpecSteps == InitSteps /\ [][NextSteps]_vars

\* do_restore of a regular snapshot and then do_restore of the undo snapshot
\* that call made, after any history of calls and environment steps.  probe
\* holds the position, the save roots' files before the first call, the
\* snapshot restored, the undo made, and the manifest as the first call read it.
RoundIdle(lv) == [fn |-> "round", pc |-> "before", was |-> lv, s |-> NoInfo, u |-> NoInfo,
                  rcf |-> << >>]

\* the calls and environment steps before the round trip
RoundSetup == probe.pc = "before" /\ Next

\* do_restore(s) for a regular snapshot s, returning normally
RestoreSave ==
  /\ probe.pc = "before"
  /\ \E s \in Parsed(jsons) :
       /\ NotUndo(s)
       /\ DoRestoreCall(s)
       /\ ev'.res = "ok"
       /\ probe' = [probe EXCEPT !.pc = "restored", !.was = live, !.s = s, !.u = ev'.out,
                                 !.rcf = ReadRcf(s.roots, s.key.game, manifest[s.key.game], live).rcf]

\* the first call returns to the caller
RoundReturn == probe.pc = "restored" /\ Return

\* do_restore(u) for the undo snapshot u the first call made, returning normally
RestoreUndo ==
  /\ probe.pc = "restored"
  /\ probe.u \in Parsed(jsons)
  /\ DoRestoreCall(probe.u)
  /\ ev'.res = "ok"
  /\ probe' = [probe EXCEPT !.pc = "undone"]

InitRound == InitFor({1}, Games, MaxEnv, {TRUE}) /\ probe = RoundIdle(live)
NextRound == RoundSetup \/ RestoreSave \/ RoundReturn \/ RestoreUndo
SpecRound == InitRound /\ [][NextRound]_vars

\* ------------------------------------------------------------------ properties
InRcf(g, f) == \E j \in 1 .. Len(manifest[g]) : manifest[g][j] = f
RootIdx(s) == 1 .. Len(s.roots)
UndoKey(g) == [kind |-> "undo", game |-> g, ts |-> now]

\* Every listed file that the payload directories dr hold for snapshot s is a
\* live file in lv with the same content.
C1_Restored(s, lv, dr) ==
  \A i \in RootIdx(s), f \in Files :
    (InRcf(s.key.game, f) /\ dr[<<s.key, i - 1>>][f] # Absent)
      => /\ lv[s.roots[i]][f] # Absent
         /\ lv[s.roots[i]][f].data = dr[<<s.key, i - 1>>][f].data

\* C1: restore round-trip.  After do_restore(s) completes for a snapshot s of
\* the store, with Engine.dry_run off, for every save root r of s and every
\* manifest-listed file f that s's payload directory for r holds, the live
\* file r/f exists and has the content of the payload copy.
C1_RestoreRoundTrip ==
  [][(ev'.op = "restore" /\ ev'.res = "ok" /\ ~dry_run) => C1_Restored(ev'.arg, live', dirs)]_vars

\* A restore has completed over two save roots: each live file has the
\* snapshot's content again, and the undo taken on the way holds the content
\* the restore has overwritten.
C1_Witness ==
  /\ ev.op = "restore" /\ ev.res = "ok" /\ ~dry_run
  /\ Len(ev.arg.roots) = 2
  /\ \A i \in RootIdx(ev.arg) :
       /\ dirs[<<ev.arg.key, i - 1>>]["f1"] # Absent
       /\ live[ev.arg.roots[i]]["f1"] = dirs[<<ev.arg.key, i - 1>>]["f1"]
  /\ ev.out # NoInfo
  /\ \E i \in RootIdx(ev.arg) :
       dirs[<<ev.out.key, i - 1>>]["f1"].data # live[ev.arg.roots[i]]["f1"].data

\* No snapshot but those named in except is new or rewritten in the store;
\* the undo u holds the listed live files of s's roots as they were.
C2_NothingNewBut(except) ==
  /\ \A k \in Keys \ except : jsons'[k].st = "ok" => jsons[k] = jsons'[k]
  /\ \A kd \in (Keys \ except) \X SuffixIdx : dirs'[kd] \in {dirs[kd], EmptyDir}
C2_UndoHoldsLive(s, u) ==
  /\ jsons'[u] = [st |-> "ok", roots |-> s.roots]
  /\ \A i \in RootIdx(s), f \in Files :
       (InRcf(s.key.game, f) /\ live[s.roots[i]][f] # Absent)
         => dirs'[<<u, i - 1>>][f] = live[s.roots[i]][f]

\* C2: a completed do_restore(s) of a regular snapshot s (Engine.dry_run off)
\* leaves exactly one snapshot the store did not have, the undo named after
\* the current millisecond, and that undo holds every manifest-listed live
\* file as it was before the restore overwrote it; a completed do_restore(s)
\* of an undo snapshot leaves no snapshot the store did not have.
C2_RestoreMakesOneUndo ==
  [][(ev'.op = "restore" /\ ev'.res = "ok" /\ ~dry_run) =>
       IF ev'.arg.key.kind = "save"
       THEN /\ C2_NothingNewBut({UndoKey(ev'.game)})
            /\ C2_UndoHoldsLive(ev'.arg, UndoKey(ev'.game))
       ELSE C2_NothingNewBut({})]_vars

\* A restore of a regular snapshot has completed: the store holds the undo it
\* made, whose payload is the content the live file had (now overwritten).
C2_Witness ==
  /\ ev.op = "restore" /\ ev.res = "ok" /\ ~dry_run
  /\ ev.arg.key.kind = "save"
  /\ jsons[ev.out.key].st = "ok"
  /\ dirs[<<ev.out.key, 0>>]["f1"].data = "c"
  /\ live[ev.arg.roots[1]]["f1"].data = "a"

\* C3: backup is idempotent under "nothing changed".  When do_backup for a
\* title has created a snapshot and the engine's next call is do_backup for
\* the same title (not a dry run, ignore_unchanged on, Engine.dry_run off),
\* no save file or manifest having changed in between, that second call
\* returns None and leaves the snapshot store as it was.
C3_SecondBackupIsNoOp ==
  [][(/\ ev'.op = "backup" /\ ~ev'.dry
      /\ prevBackup # 0 /\ prevBackup = ev'.game
      /\ ignore_unchanged /\ ~dry_run)
     => (ev'.res = "none" /\ jsons' = jsons /\ dirs' = dirs)]_vars

\* C3 where it does hold: the same, for a first snapshot taken strictly later than the last write of
\* a listed file, over save roots that each still hold a listed file.
C3_Settled ==
  [][(/\ ev'.op = "backup" /\ ~ev'.dry
      /\ prevBackup # 0 /\ prevBackup = ev'.game
      /\ ignore_unchanged /\ ~dry_run
      /\ LET rr == ReadRcf(gameInfo[ev'.game], ev'.game, manifest[ev'.game], live)
             g == GetRcfTimestamp(rr.rcf, rr.roots, live)
         IN g # Raises /\ GetNewestSave(jsons, ev'.game).key.ts > g)
     => (ev'.res = "none" /\ jsons' = jsons /\ dirs' = dirs)]_vars

\* The regular snapshots of the store (the sidecars that parse), of one title
\* and of all titles.
Regulars(js) == {k \in Keys : k.kind = "save" /\ js[k].st = "ok"}
RegularsOf(js, g) == {k \in Regulars(js) : k.game = g}

\* kept is exactly MaxSaves of the snapshots in all, none of them older than
\* one that was dropped.
KeptNewest(kept, all) ==
  /\ kept \subseteq all
  /\ Cardinality(kept) = MaxSaves
  /\ \A k \in kept, d \in all \ kept : k.ts >= d.ts

NthBackup ==
  /\ ev'.op = "backup" /\ ev'.res = "created"
  /\ made'[ev'.game] > MaxSaves

\* C4 as claimed: once more than MaxSaves do_backup calls for one title have
\* each created a new snapshot, exactly MaxSaves regular snapshots of that
\* title remain after the call, those with the title's largest timestamps.
C4_KeepsKOfTheTitle ==
  [][NthBackup =>
       KeptNewest(RegularsOf(jsons', ev'.game),
                  RegularsOf(jsons, ev'.game) \cup {ev'.out.key})]_vars

\* C4, amended: once more than MaxSaves do_backup calls for one title have
\* each created a new snapshot, exactly MaxSaves regular snapshots remain in
\* the store after the call, counting those of every title, and they are the
\* ones with the largest timestamps.
C4_KeepsKInTheStore ==
  [][NthBackup =>
       KeptNewest(Regulars(jsons'), Regulars(jsons) \cup {ev'.out.key})]_vars

\* The backup that made a title's (MaxSaves + 1)-th snapshot has returned: the
\* store holds MaxSaves regular snapshots, one of them another title's, so
\* fewer than MaxSaves of the title itself.
C4_Witness ==
  /\ ev.op = "backup" /\ ev.res = "created"
  /\ made[ev.game] > MaxSaves
  /\ Cardinality(Regulars(jsons)) = MaxSaves
  /\ Cardinality(RegularsOf(jsons, ev.game)) < MaxSaves
  /\ \E k \in Regulars(jsons) : k.game # ev.game

\* The undo snapshots of the store (the sidecars that parse).
Undos(js) == {k \in Keys : k.kind = "undo" /\ js[k].st = "ok"}

C6_Gone(k) ==
  /\ jsons'[k] = Missing
  /\ \A i \in SuffixIdx : ~DirExists(dirs'[<<k, i>>])
C6_ListedAreStored(list) ==
  \A i \in 1 .. Len(list) : jsons[list[i].key] = [st |-> "ok", roots |-> list[i].roots]

\* C6: after do_delete(s) the store holds neither s's sidecar nor any payload
\* directory of s, whatever its suffix; and a get_saveinfos result holds only
\* snapshots whose sidecar is in the store when it is called, so it does not
\* include s for as long as no snapshot of that name is written again.
C6_DeleteRemoves ==
  [][/\ ev'.op = "delete" => C6_Gone(ev'.arg.key)
     /\ ev'.op = "list" => C6_ListedAreStored(ev'.list)]_vars

\* do_delete has returned for a snapshot of two save roots: its sidecar and
\* both its payload directories are gone, another snapshot is still stored.
C6_Witness ==
  /\ ev.op = "delete"
  /\ Len(ev.arg.roots) = 2
  /\ jsons[ev.arg.key] = Missing
  /\ \A i \in SuffixIdx : ~DirExists(dirs[<<ev.arg.key, i>>])
  /\ \E k \in Keys : jsons[k].st = "ok" /\ DirExists(dirs[<<k, 1>>])

\* The SaveInfo dicts of a listing.
Listed(list) == {list[i] : i \in 1 .. Len(list)}

\* C7: self-healing list.  get_saveinfos returns (does not raise); every
\* sidecar that is corrupt when it is called is gone from the store when it
\* returns; the result is exactly the snapshots whose sidecars are valid.
C7_ListHeals ==
  [][ev'.op = "list" =>
       /\ ev'.res = "ok"
       /\ \A k \in Keys : jsons[k].st = "corrupt" => jsons'[k] = Missing
       /\ Listed(ev'.list) = Parsed(jsons)]_vars

\* What get_saveinfos does do about a corrupt sidecar: it returns, leaves the
\* store as it is, and lists exactly the snapshots whose sidecars are valid.
C7_ListSkips ==
  [][ev'.op = "list" =>
       /\ ev'.res = "ok"
       /\ jsons' = jsons /\ dirs' = dirs
       /\ Listed(ev'.list) = Parsed(jsons)]_vars

\* The listing is its undos followed by its regular snapshots, each part in
\* non-increasing timestamp order, and names exactly the snapshots whose
\* sidecars parse, each once.
NonIncreasing(list) == \A i \in 1 .. Len(list) - 1 : list[i].key.ts >= list[i + 1].key.ts
C8_Ordered(list, js) ==
  /\ list = SelectSeq(list, IsUndo) \o SelectSeq(list, NotUndo)
  /\ NonIncreasing(SelectSeq(list, IsUndo))
  /\ NonIncreasing(SelectSeq(list, NotUndo))
  /\ Listed(list) = Parsed(js)
  /\ Len(list) = Cardinality(Parsed(js))

WouldWrite(g, apply) ==
  ENABLED (DoBackup(g, apply, FALSE) /\ ev'.res \in {"created", "raise_copy"})
WouldEnd(g, apply, res) ==
  ENABLED (DoBackup(g, apply, FALSE) /\ ev'.res = res)

\* A dry-run backup leaves every sidecar, every payload file, the live files
\* and last-used as they are.
C9_NoSnapshotTouched ==
  /\ jsons' = jsons /\ dirs' = dirs
  /\ live' = live /\ last_used' = last_used

\* _read_rcf gives do_backup a non-empty manifest for the title.
C9_HasRcf(g) ==
  LET rr == ReadRcf(gameInfo[g], g, manifest[g], live)
  IN ~rr.none /\ rr.rcf # << >>

\* C9 as claimed: do_backup with dry_run = True writes nothing to the file
\* system (no sidecar, payload file or directory is created, changed or
\* deleted; last-used stays), and returns the sentinel exactly when the same
\* call without dry_run would have created a snapshot, and None otherwise.
C9_DryRunWritesNothing ==
  [][(ev'.op = "backup" /\ ev'.dry) =>
       \E g \in Games, apply \in BOOLEAN :
         /\ g = ev'.game /\ apply = ev'.apply
         /\ C9_NoSnapshotTouched
         /\ storeDir' = storeDir
         /\ ev'.res = (IF WouldWrite(g, apply) THEN "sentinel" ELSE "none")]_vars

\* C9, amended: do_backup with dry_run = True creates, changes or deletes no
\* sidecar and no payload file or directory and leaves last-used as it is,
\* but creates the store directory saves2 when it is missing and the
\* manifest has entries; it returns the sentinel exactly when the same call
\* without dry_run would have gone on to write a snapshot, returns None
\* exactly when that call would have returned None, and raises ValueError
\* exactly when that call would have raised it in the change check.
C9_DryRunWritesNoSnapshot ==
  [][(ev'.op = "backup" /\ ev'.dry) =>
       \E g \in Games, apply \in BOOLEAN :
         /\ g = ev'.game /\ apply = ev'.apply
         /\ C9_NoSnapshotTouched
         /\ storeDir' = (storeDir \/ C9_HasRcf(g))
         /\ ev'.res \in {"sentinel", "none", "raise_value"}
         /\ (ev'.res = "sentinel") = WouldWrite(g, apply)
         /\ (ev'.res = "none") = WouldEnd(g, apply, "none")
         /\ (ev'.res = "raise_value") = WouldEnd(g, apply, "raise_value")]_vars

\* A dry-run backup has returned the sentinel for a title that already has a
\* snapshot (the change check ran and found a newer save file); the store
\* directory exists, the store holds that one snapshot still.
C9_Witness ==
  /\ ev.op = "backup" /\ ev.dry /\ ev.res = "sentinel"
  /\ storeDir
  /\ Cardinality(RegularsOf(jsons, ev.game)) = 1
  /\ \A k \in RegularsOf(jsons, ev.game) : k.ts < now

\* A call has raised out of the copy into the snapshot it was creating.
CopyInFailed(e) ==
  \/ e.op = "backup" /\ e.res = "raise_copy"
  \/ e.op = "restore" /\ e.res = "raise_undo"
  \/ e.op = "reuse" /\ e.res = "raise_new"

\* The snapshot a completed do_backup names holds every listed live file.
C10_Complete(info) ==
  \A i \in RootIdx(info), f \in Files :
    (InRcf(info.key.game, f) /\ live[info.roots[i]][f] # Absent)
      => dirs'[<<info.key, i - 1>>][f] = live[info.roots[i]][f]

\* C10: copy-failure cleanup.  When a copy into a new snapshot raises (in
\* do_backup, in the undo step of do_restore, in do_reuse), the store holds
\* neither the sidecar nor any payload directory of that snapshot when the
\* error reaches the caller; and the error does reach the caller: a do_backup
\* that returns a SaveInfo (Engine.dry_run off) has copied every listed file.
C10_FailedCopyLeavesNothing ==
  [][/\ CopyInFailed(ev') =>
          /\ jsons'[ev'.out.key] = Missing
          /\ \A i \in SuffixIdx : ~DirExists(dirs'[<<ev'.out.key, i>>])
     /\ (ev'.op = "backup" /\ ev'.res = "created" /\ ~dry_run /\ jsons'[ev'.out.key].st = "ok")
          => C10_Complete(ev'.out)]_vars

\* do_backup has raised out of its copy over two save roots: nothing of the
\* snapshot it named is in the store.
C10_Witness ==
  /\ ev.op = "backup" /\ ev.res = "raise_copy"
  /\ Len(ev.out.roots) = 2
  /\ jsons[ev.out.key] = Missing
  /\ \A i \in SuffixIdx : ~DirExists(dirs[<<ev.out.key, i>>])

\* A sidecar file of the name is in the store (valid or not); some payload
\* directory of the name is in the store.
SidecarExists(k) == jsons[k].st # "missing"
PayloadExists(k) == \E i \in SuffixIdx : DirExists(dirs[<<k, i>>])

\* C11: sidecar/payload pairing.  In every state between the engine's calls,
\* completed or failed, a snapshot's sidecar is in the store if and only if a
\* payload directory of it is.
C11_Paired ==
  \A k \in Keys : SidecarExists(k) <=> PayloadExists(k)

\* The half of C11 that does hold: no payload directory without its sidecar.
C11_NoPayloadAlone ==
  \A k \in Keys : PayloadExists(k) => SidecarExists(k)

\* What a completed do_reuse of s leaves when n is the snapshot it made: n is
\* in the store and is the last-used one; every listed file that s's payload
\* held is a live file again and is in n's payload, with the same content;
\* s is gone.
C12_Reused(s, n) ==
  /\ jsons'[n.key] = [st |-> "ok", roots |-> s.roots]
  /\ last_used' = n
  /\ n.key.kind = "save" /\ n.key.game = s.key.game
  /\ \A i \in RootIdx(s), f \in Files :
       (InRcf(s.key.game, f) /\ dirs[<<s.key, i - 1>>][f] # Absent)
         => /\ live'[s.roots[i]][f].data = dirs[<<s.key, i - 1>>][f].data
            /\ dirs'[<<n.key, i - 1>>][f].data = dirs[<<s.key, i - 1>>][f].data
  /\ s.key # n.key => (jsons'[s.key] = Missing /\ \A i \in SuffixIdx : ~DirExists(dirs'[<<s.key, i>>]))

\* do_reuse without a last-used snapshot changes nothing.
C12_NoOp ==
  UNCHANGED <<live, storeDir, jsons, dirs, last_used, gameInfo>>

\* C12: a completed do_reuse with last-used snapshot s (Engine.dry_run off)
\* has restored s's payload to the live save roots, made a fresh regular
\* snapshot n holding every file s held, made n the last-used one and
\* deleted s; with no last-used snapshot do_reuse changes nothing.
C12_Reuse ==
  [][/\ (ev'.op = "reuse" /\ ev'.res = "ok" /\ ~dry_run) => C12_Reused(ev'.arg, ev'.out)
     /\ (ev'.op = "reuse" /\ ev'.res = "none") => (last_used = NoInfo /\ C12_NoOp)
     /\ (ev'.op = "reuse" /\ last_used = NoInfo) => ev'.res = "none"]_vars

\* C12 where it does hold: the same, for a last-used snapshot whose name is
\* not the name the new snapshot gets (the clock has moved since s was
\* stamped, or s is an undo).
C12_ReuseLater ==
  [][/\ (ev'.op = "reuse" /\ ev'.res = "ok" /\ ~dry_run /\ ev'.arg.key # ev'.out.key)
          => C12_Reused(ev'.arg, ev'.out)
     /\ (ev'.op = "reuse" /\ ev'.res = "none") => (last_used = NoInfo /\ C12_NoOp)
     /\ (ev'.op = "reuse" /\ last_used = NoInfo) => ev'.res = "none"]_vars

\* C13: resolving the save roots of a title whose appmanifest gives no
\* installdir sets no save_games_roots on its game_info, and the title is
\* unsupported without an exception: do_backup returns None and
\* find_supported leaves the title out, whatever the disk holds (an existing
\* per-account "remote" directory included).
C13_NoInstalldirUnsupported ==
  [][/\ (ev'.op = "backup" /\ ev'.game \notin installdir /\ gameInfo[ev'.game] = << >>)
          => (ev'.res = "none" /\ gameInfo'[ev'.game] = << >>)
     /\ ev'.op = "supported"
          => \A g \in titles \ installdir :
               gameInfo[g] = << >> => (g \notin ev'.sup /\ gameInfo'[g] = << >>)]_vars

\* The save root of the reference: the longest common prefix of all the
\* entries, cut back to its last "/"; the marker directory without that
\* suffix when it ends with it, else the marker directory.
EndsWith(s, t) == Len(t) <= Len(s) /\ SubSeq(s, Len(s) - Len(t) + 1, Len(s)) = t
CommonPrefixLen(rcf) ==
  LET ok == {n \in 0 .. Len(rcf[1]) : \A i \in 1 .. Len(rcf) : IsPrefix(Take(rcf[1], n), rcf[i])}
  IN CHOOSE n \in ok : \A m \in ok : m <= n
ReferenceRoot(rcf, marker) ==
  LET common == Take(rcf[1], CommonPrefixLen(rcf))
      cut == RFindSlash(common)
      dir == Take(common, cut - 1)
  IN IF cut # 0 /\ EndsWith(marker, dir)
     THEN Path(NormPath(SubSeq(marker, 1, Len(marker) - Len(dir))))
     ELSE Path(NormPath(marker))

\* C14: for a non-empty manifest, _find_save_root_from_autoclouds returns the
\* save root of the reference (longest common prefix of ALL entries, cut back
\* to the last "/", stripped from the end of the marker directory when the
\* directory ends with it), also when one entry is a string prefix of
\* another, and in whatever order the entries come.
C14_MatchesReference ==
  (probe.fn = "autocloud" /\ probe.out # Pending)
    => probe.out = ReferenceRoot(probe.rcf, probe.autocloud)

\* C14 where it does hold: manifests in which no entry is a proper prefix of
\* another entry.
C14_NoEntryPrefixes ==
  (/\ probe.fn = "autocloud" /\ probe.out # Pending
   /\ \A i, j \in 1 .. Len(probe.rcf) :
        IsPrefix(probe.rcf[i], probe.rcf[j]) => probe.rcf[i] = probe.rcf[j])
    => probe.out = ReferenceRoot(probe.rcf, probe.autocloud)

\* Some root of the cached mapping roots no longer validates for title g.
StaleRoot(g, roots) ==
  \E i \in 1 .. Len(roots) : ~RcfIsValid(roots[i], manifest[g], live)

\* C15: cached roots are confirmed again before they are relied on.  When
\* do_backup, do_restore, do_reuse or find_supported runs with a cached
\* save_games_roots of which some root no longer validates (no listed file
\* exists under it), the call reports the title as unsupported: it returns
\* None (find_supported leaves the title out), raises nothing, and neither
\* the store's payload nor the live files change.
C15_StaleRootUnsupported ==
  [][/\ (ev'.op = "backup" /\ gameInfo[ev'.game] # << >> /\ StaleRoot(ev'.game, gameInfo[ev'.game]))
          => (ev'.res = "none" /\ dirs' = dirs /\ live' = live)
     /\ (ev'.op \in {"restore", "reuse"} /\ ev'.arg # NoInfo /\ StaleRoot(ev'.game, ev'.arg.roots))
          => (ev'.res = "none" /\ dirs' = dirs /\ live' = live)
     /\ ev'.op = "supported"
          => \A g \in titles :
               (gameInfo[g] # << >> /\ StaleRoot(g, gameInfo[g])) => g \notin ev'.sup]_vars

\* The call that has just completed resolved the save roots of title g.
Resolves(g) ==
  /\ gameInfo[g] = << >>
  /\ \/ ev'.op = "backup" /\ ev'.game = g
     \/ ev'.op = "supported" /\ g \in titles

\* C16: a game_info carries save_games_roots only as a non-empty mapping of
\* roots that each passed _rcf_is_valid when they were resolved: a resolution
\* sets the field to directories that hold a listed file at that moment, and
\* when no candidate validates it sets no field and the title is reported as
\* unsupported (do_backup returns None, find_supported leaves it out); every
\* SaveInfo of the store and the last-used one carry a non-empty mapping too.
C16_ResolvedRootsValid ==
  [][/\ \A g \in Games : Resolves(g) =>
          /\ \A i \in 1 .. Len(gameInfo'[g]) : RcfIsValid(gameInfo'[g][i], manifest[g], live)
          /\ gameInfo'[g] = << >> =>
                IF ev'.op = "backup" THEN ev'.res = "none" ELSE g \notin ev'.sup
          /\ (\A r \in Roots : RootGame(r) = g => ~RcfIsValid(r, manifest[g], live))
                => gameInfo'[g] = << >>
     /\ \A k \in Keys : jsons'[k].st = "ok" => jsons'[k].roots # << >>
     /\ last_used' # NoInfo => last_used'.roots # << >>]_vars

\* A resolution has just kept the likely location and dropped the "remote"
\* directory, which exists and holds no listed file.
C16_Witness ==
  /\ ev.op = "backup" /\ ev.res = "created"
  /\ gameInfo[1] = <<"g1b">>
  /\ ~RcfIsValid("g1a", manifest[1], live)

\* C17: create-then-write ordering.  While do_backup copies the payload of a
\* snapshot whose name is new to the store, and some listed file is not yet
\* copied, the snapshot's sidecar is not in the store: the sidecar is written
\* only after the whole payload.
C17_SidecarAfterPayload ==
  (probe.fn = "backup" /\ probe.pc = "copying" /\ probe.fresh /\ probe.copied < StepPlan)
    => jsons[probe.info.key].st = "missing"

\* C17's other half, which does hold: a do_backup that has returned a
\* SaveInfo leaves the sidecar and every listed live file's copy in the store.
C17_CompleteOnReturn ==
  (probe.fn = "backup" /\ ev.op = "backup" /\ ev.res = "created")
    => /\ jsons[ev.out.key].st = "ok"
       /\ \A i \in RootIdx(ev.out), f \in Files :
            (InRcf(ev.game, f) /\ live[ev.out.roots[i]][f] # Absent)
              => dirs[<<ev.out.key, i - 1>>][f] = live[ev.out.roots[i]][f]

\* The modification times (ms) of the listed files that exist under the
\* title's save roots, and the skip condition of the rule.
ListedTimes(g, roots) ==
  {live[roots[i]][f].mtime : <<i, f>> \in
     {x \in (1 .. Len(roots)) \X Files : InRcf(g, x[2]) /\ live[roots[x[1]]][x[2]] # Absent}}
SkipRule(g, roots) ==
  /\ RegularsOf(jsons, g) # {}
  /\ ignore_unchanged
  /\ \A t \in ListedTimes(g, roots) : \E k \in RegularsOf(jsons, g) : k.ts > t
EveryRootListed(g, roots) ==
  \A i \in 1 .. Len(roots) : RcfIsValid(roots[i], manifest[g], live)
BackupOutcome(g, roots) ==
  IF SkipRule(g, roots)
  THEN ev'.res = "none" /\ jsons' = jsons /\ dirs' = dirs
  ELSE ev'.res \in {"created", "raise_copy"}

\* C18: the skip rule.  A do_backup (not a dry run) for a supported title, of
\* whose listed files at least one exists under at least one save root,
\* returns None and creates nothing if and only if the title has a regular
\* snapshot, ignore_unchanged is on, and the newest regular snapshot's
\* timestamp is strictly greater than the greatest modification time of the
\* listed files that exist across all save roots; otherwise (equal, or
\* older) it goes on to create a snapshot.  It never fails on the maximum.
C18_SkipRule ==
  [][(/\ ev'.op = "backup" /\ ~ev'.dry /\ ~dry_run
      /\ gameInfo'[ev'.game] # << >> /\ manifest[ev'.game] # << >>
      /\ ListedTimes(ev'.game, gameInfo'[ev'.game]) # {})
     => BackupOutcome(ev'.game, gameInfo'[ev'.game])]_vars

\* C18 where it does hold: the same, when every save root holds a listed file.
C18_SkipRuleEveryRoot ==
  [][(/\ ev'.op = "backup" /\ ~ev'.dry /\ ~dry_run
      /\ gameInfo'[ev'.game] # << >> /\ manifest[ev'.game] # << >>
      /\ EveryRootListed(ev'.game, gameInfo'[ev'.game]))
     => BackupOutcome(ev'.game, gameInfo'[ev'.game])]_vars

\* The directories of seq that are in valid, each once, in the order of
\* their first occurrence.
RECURSIVE FirstOccurrences(_, _)
FirstOccurrences(seq, valid) ==
  IF seq = << >> THEN << >>
  ELSE LET rest == FirstOccurrences(SubSeq(seq, 2, Len(seq)), valid \ {seq[1]})
       IN IF seq[1] \in valid THEN <<seq[1]>> \o rest ELSE rest
Candidates(p) == IF p.inst THEN p.remotes \o p.likely \o p.auto ELSE p.remotes

\* C19: suffix assignment.  The save_games_roots a resolution sets holds each
\* validated candidate once, in the order of first discovery; its first root
\* has the empty suffix and its i-th later root the suffix "_i", so the
\* suffixes are pairwise distinct; and a later _read_rcf with the same
\* game_info leaves the mapping as it is, whatever the disk has become.
C19_SuffixAssignment ==
  [][(probe.fn = "roots" /\ probe'.roots.set) =>
       LET m == probe'.roots.map
           expected == FirstOccurrences(Candidates(probe'), probe'.at)
       IN /\ [i \in 1 .. Len(m) |-> m[i].dir] = expected
          /\ \A i \in 1 .. Len(m) : m[i].suffix = (IF i = 1 THEN << >> ELSE <<"_", DigitStr[i]>>)
          /\ \A i, j \in 1 .. Len(m) : i # j => (m[i].dir # m[j].dir /\ m[i].suffix # m[j].suffix)
          /\ probe.roots.set => probe'.roots = probe.roots]_vars

\* A second _read_rcf has left alone a mapping of two roots resolved from
\* candidates with a duplicate, although the first root validates no more.
C19_Witness ==
  /\ probe.fn = "roots" /\ probe.calls = 2 /\ probe.roots.set
  /\ Len(probe.roots.map) = 2
  /\ probe.roots.map[2].suffix = <<"_", "1">>
  /\ Len(Candidates(probe)) > Cardinality({Candidates(probe)[i] : i \in 1 .. Len(Candidates(probe))})
  /\ probe.roots.map[1].dir \notin probe.valid

\* The file-path keys of the top-level blocks, in order, over the accounts.
BlockPaths(blocks) == [i \in 1 .. Len(blocks) |-> blocks[i].path]
ExpectedRcf(p) ==
  BlockPaths(p.blocks)
    \o (IF p.more # << >> /\ p.more[1].exists THEN << <<"f", "3">> >> ELSE << >>)
NestedIn(b) == Cardinality({i \in 1 .. Len(b.body) : b.body[i] = "nested"})

\* C20: for well-formed manifests (blocks with nested blocks inside them
\* included) the reader returns exactly the file-path keys that introduce
\* the top-level blocks, in order and without their quotes, the accounts'
\* manifests one after the other, a missing manifest adding nothing: never
\* a header key, a metadata key or a brace.
C20_ReadsBlockPaths ==
  (probe.fn = "rcf" /\ probe.out # Pending) => probe.out = Path(ExpectedRcf(probe))

\* C20 where it does hold: manifests whose file blocks hold at most one
\* nested block each.
C20_OneNestedBlock ==
  (/\ probe.fn = "rcf" /\ probe.out # Pending
   /\ \A i \in 1 .. Len(probe.blocks) : NestedIn(probe.blocks[i]) <= 1)
    => probe.out = Path(ExpectedRcf(probe))

WithinRetention(js) ==
  /\ Cardinality(Regulars(js)) <= MaxSaves
  /\ Cardinality(Undos(js)) <= 1

\* C21: the retention bound as an invariant.  After every completed
\* do_backup, do_restore, do_reuse and do_delete, in any sequence (a reuse of
\* a last-used snapshot that is an undo included), the store holds at most
\* max_saves regular snapshots and at most one undo snapshot.
C21_RetentionBound ==
  [][(/\ ev'.op \in {"backup", "restore", "reuse", "delete"}
      /\ ev'.res \in {"ok", "created", "none", "sentinel"})
     => WithinRetention(jsons')]_vars

\* C21 where it does hold: after every do_backup that has created a snapshot
\* and every do_restore that has completed, the calls that end with
\* _cull_old_saves.
C21_BoundAfterCull ==
  [][(\/ ev'.op = "backup" /\ ev'.res = "created"
      \/ ev'.op = "restore" /\ ev'.res = "ok")
     => WithinRetention(jsons')]_vars

\* Snapshot k is after the step as it was before: sidecar and payload.
SameSnapshot(k) ==
  /\ jsons'[k] = jsons[k]
  /\ \A i \in SuffixIdx : dirs'[<<k, i>>] = dirs[<<k, i>>]

\* Snapshot k went in a store-wide cull: the call completed, and no snapshot
\* of k's kind that the store keeps is older than k.
CulledStoreWide(k) ==
  /\ ev'.res \in {"created", "ok"}
  /\ jsons'[k].st = "missing"
  /\ IF k.kind = "save"
     THEN /\ Cardinality(Regulars(jsons')) = MaxSaves
          /\ \A kept \in Regulars(jsons') : kept.ts >= k.ts
     ELSE /\ Cardinality(Undos(jsons')) = 1
          /\ \A kept \in Undos(jsons') : kept.ts >= k.ts

OthersSnapshots == {k \in Keys : k.game # ev'.game /\ jsons[k].st = "ok"}

\* C22 as claimed: a do_backup or do_restore for one title, its cull
\* included, leaves every snapshot of every other title in the store as it
\* was.
C22_OtherTitlesUntouched ==
  [][ev'.op \in {"backup", "restore"} => \A k \in OthersSnapshots : SameSnapshot(k)]_vars

\* C22, amended: a do_backup or do_restore for one title leaves every
\* snapshot of every other title as it was, but for the cull, which is
\* store-wide: it may remove another title's snapshot, and only one that is
\* no newer than any snapshot of its kind that the store keeps (max_saves
\* regular snapshots and one undo, of all titles together).
C22_OthersOnlyCulled ==
  [][ev'.op \in {"backup", "restore"} =>
       \A k \in OthersSnapshots : SameSnapshot(k) \/ CulledStoreWide(k)]_vars

\* A backup has returned whose cull took the only snapshot of the other
\* title: the store is full of the caller's own.
C22_Witness ==
  /\ ev.op = "backup" /\ ev.res = "created"
  /\ \E g \in Games \ {ev.game} : made[g] >= 1 /\ RegularsOf(jsons, g) = {}
  /\ Cardinality(RegularsOf(jsons, ev.game)) = MaxSaves

\* The snapshot that last_used_save_info names is in the store as js and dr
\* have it: its sidecar parses and a payload directory of it exists.
LastUsedStored(lu, js, dr) ==
  lu # NoInfo =>
    /\ js[lu.key].st = "ok"
    /\ \E i \in SuffixIdx : DirExists(dr[<<lu.key, i>>])

\* C23: last-used validity.  After every completed operation of the engine,
\* last_used_save_info is None or names a snapshot that is still in the
\* store, sidecar and payload: neither do_delete of the last-used snapshot
\* nor a cull leaves it naming a deleted snapshot.
C23_LastUsedStored ==
  [][(ev'.op \in {"backup", "restore", "reuse", "delete", "list", "supported"}
      /\ ev'.res \in {"ok", "created", "none", "sentinel"})
     => LastUsedStored(last_used', jsons', dirs')]_vars

\* C23 where it does hold: right after a do_backup with apply_last_used that
\* has created a snapshot (Engine.dry_run off), the last-used snapshot is the
\* new one and its sidecar is in the store.
C23_StoredWhenSet ==
  [][(ev'.op = "backup" /\ ev'.res = "created" /\ ev'.apply /\ ~dry_run)
     => (last_used' = ev'.out /\ jsons'[last_used'.key].st = "ok")]_vars

\* C24: the delete frame.  _delete_savedir for snapshot s (from do_delete,
\* the cull, or the cleanup after a failed copy) removes s and leaves the
\* sidecar and the payload directories of every other snapshot of the store
\* in place, also when the filename of one is a prefix of the other's.
C24_DeleteFrame ==
  (probe.fn = "delete" /\ probe.out # {<<"?">>})
    => /\ probe.out \cap Entries(probe.key) = {}
       /\ \A k \in probe.has \ {probe.key} : Entries(k) \subseteq probe.out

\* C24 where it does hold: every other snapshot whose filename is as long as
\* or shorter than the deleted one's (timestamps of the same number of
\* digits, as all millisecond timestamps of one era are) is left in place.
C24_FrameSameWidth ==
  (probe.fn = "delete" /\ probe.out # {<<"?">>})
    => /\ probe.out \cap Entries(probe.key) = {}
       /\ \A k \in probe.has \ {probe.key} :
            Len(Filename(k)) <= Len(Filename(probe.key)) => Entries(k) \subseteq probe.out

UndoStepFailed == ev'.op = "restore" /\ ev'.res \in {"raise_assert", "raise_undo"}

\* C25: restore failure atomicity.  When the undo step of do_restore fails
\* (the manifest reads as empty, or a copy into the undo raises), no live save
\* file has been modified, the store holds the snapshots it held, sidecars
\* and payloads, and last_used_save_info is unchanged.
C25_FailedUndoChangesNothing ==
  [][UndoStepFailed =>
       /\ live' = live
       /\ jsons' = jsons /\ dirs' = dirs
       /\ last_used' = last_used]_vars

\* C25 where it does hold: the same, for every snapshot but one that already
\* has the name of the undo being made (an undo of this title written in the
\* same millisecond), which the cleanup deletes.
C25_FailedUndoFrame ==
  [][UndoStepFailed =>
       /\ live' = live
       /\ last_used' = last_used
       /\ IF ev'.res = "raise_assert"
          THEN jsons' = jsons /\ dirs' = dirs
          ELSE /\ \A k \in Keys \ {UndoKey(ev'.game)} : SameSnapshot(k)
               /\ jsons'[UndoKey(ev'.game)].st = "missing"]_vars

\* The round trip is complete; the files the first call read from the manifest;
\* the save roots of the snapshot restored.
RoundDone == probe.fn = "round" /\ probe.pc = "undone"
RoundFiles == {f \in Files : \E j \in 1 .. Len(probe.rcf) : probe.rcf[j] = f}
RoundRoots == {probe.s.roots[i] : i \in 1 .. Len(probe.s.roots)}

\* C26: do_restore(s) of a regular snapshot s followed by do_restore(u) of the
\* undo snapshot u that the first call made returns every manifest-listed
\* file under every save root to its state before the first restore, in
\* content and in existence: a file that did not exist before the first
\* restore does not exist afterwards.
C26_UndoRoundTrip ==
  RoundDone =>
     \A r \in RoundRoots, f \in RoundFiles : live[r][f] = probe.was[r][f]

\* C26, for the files that existed before the first restore: each of them is
\* back with the content and modification time it had.
C26_UndoRestoresExisting ==
  RoundDone =>
     \A r \in RoundRoots, f \in RoundFiles :
        probe.was[r][f] # Absent => live[r][f] = probe.was[r][f]
C26_Witness ==
  /\ RoundDone /\ ~dry_run
  /\ \E r \in RoundRoots, f \in RoundFiles :
       /\ probe.was[r][f] # Absent
       /\ dirs[<<probe.s.key, 0>>][f] # probe.was[r][f]
       /\ live[r][f] = probe.was[r][f]
====
